---- MODULE Spec2Model ----
(***************************************************************************)
(* Model of the AWS Bedrock AgentCore A2A proxy: the agent registry        *)
(* (A2AProxy.agents), the discovery cycle (discover_and_refresh_agents),   *)
(* the polling loop (agent_polling_task), the two start paths and the      *)
(* shutdown (aws_proxy_startup, init_proxy_app, aws_proxy_shutdown), the   *)
(* A2A request handlers (handle_a2a_agent_messages, _handle_a2a_regular,   *)
(* _handle_a2a_streaming), the direct endpoints (invoke_agentcore_agent,   *)
(* invoke_agentcore_agent_stream) and A2AProxy.invoke_agent.               *)
(*                                                                         *)
(* The proxy runs on one asyncio event loop: a step of the model is the    *)
(* code that runs between two suspension points (await of list_agents,     *)
(* of the sleep, of the refresh handler, of request.json(), of             *)
(* client.invoke_agent).  Awaiting initialize_agents does not suspend,     *)
(* because that coroutine contains no await of its own.                    *)
(***************************************************************************)
EXTENDS Integers, Sequences, FiniteSets, TLC

(* ------------------------------ bounds --------------------------------- *)
MaxAgents == 2      \* longest list returned by one list_agents() call
MaxCycles == 2      \* polling cycles run after the startup cycle
MaxLines == 2       \* most lines of one upstream response body
MaxItems == 2       \* most items of result.content in a backend response
MaxText == 2        \* most characters of one text fragment
MaxChunks == 2      \* most chunks of one streamed backend response
MaxTasks == 3       \* most calls of aws_proxy_startup / init_proxy_app on one app

(* ------------------------- discovered records -------------------------- *)
Ids == {"a1", "a2"}
NoId == "<none>"          \* agentRuntimeId absent, None or "" (falsy)
BadId == "<unhashable>"   \* a record at which initialize_agents raises: a truthy
                          \* agentRuntimeId that cannot be a dict key (a JSON list)

\* status stands for the keys a record has besides agentRuntimeId: those of a
\* full record, or none (the record {"agentRuntimeId": "a2"})
NoFields == "<absent>"
RawAgents ==
    { [id |-> "a1",  status |-> "READY"],
      [id |-> "a2",  status |-> NoFields],
      [id |-> NoId,  status |-> "READY"],
      [id |-> BadId, status |-> "READY"] }

RECURSIVE SeqsUpTo(_, _)
SeqsUpTo(S, n) ==
    IF n = 0 THEN { <<>> }
    ELSE LET shorter == SeqsUpTo(S, n - 1)
         IN  shorter \cup { Append(s, x) : s \in { t \in shorter : Len(t) = n - 1 }, x \in S }

AgentLists == SeqsUpTo(RawAgents, MaxAgents)

EmptyAgents == [i \in {} |-> [id |-> NoId, status |-> "READY"]]

(* ------------------------------ registry ------------------------------- *)
\* self.agents[agent_id] = agent
Put(reg, k, v) == [x \in (DOMAIN reg) \cup {k} |-> IF x = k THEN v ELSE reg[x]]

\* proxy.agents.clear()
ClearKeepsEntries(reg) == reg
ClearAgents(reg) == EmptyAgents

\* "if agent_id:" for agent_id = agent.get("agentRuntimeId")
HasIdAlways(agent) == TRUE
HasId(agent) == agent.id # NoId

\* the value stored by "self.agents[agent_id] = agent": the dict of the list
StoredAsReady(agent) == [agent EXCEPT !.status = "READY"]
StoredRecord(agent) == agent

\* A2AProxy.initialize_agents: the loop from record i on.  The result is the
\* registry as the loop leaves it and whether the loop raised.
RECURSIVE InitializeFrom(_, _, _)
InitializeFrom(reg, list, i) ==
    IF i > Len(list) THEN [agents |-> reg, raised |-> FALSE]
    ELSE LET agent == list[i]
         IN  IF ~HasId(agent) THEN InitializeFrom(reg, list, i + 1)
             ELSE IF agent.id = BadId THEN [agents |-> reg, raised |-> TRUE]
             ELSE InitializeFrom(Put(reg, agent.id, StoredRecord(agent)), list, i + 1)

InitializeAgents(reg, list) == InitializeFrom(reg, list, 1)

\* "agent_id not in self.agents" negated
RegisteredAlways(reg, id) == TRUE
Registered(reg, id) == id \in DOMAIN reg

(* --------------------------- discovery cycle --------------------------- *)
\* except-branch of "agents = await client.list_agents()": at startup the
\* cycle goes on with agents = [], in the polling loop it returns.
ListFailureAlwaysProceeds(isStartup) == TRUE
ListFailureProceeds(isStartup) == isStartup

\* except-branch of "client = AgentCoreClient(region=aws_region)": at startup
\* the cycle returns without a client, otherwise the exception is raised again
ClientFailureAlwaysRaises(isStartup) == TRUE
ClientFailureRaises(isStartup) == ~isStartup

\* agent_polling_task: where the loop is after its except-branch
PollingStopsOnException == "dead"
PollingAfterException == "sleep"

(* ------------------------------ requests ------------------------------- *)
Reqs == {"r1", "r2"}          \* concurrent request handlers
Targets == {"a1", "zz"}       \* path parameter agent_id; "zz" is never discovered
Bodies == {"badjson", "noparts", "ok"}   \* request body as request.json() finds it
\* request_data.get("id"): the id the body carries, or none
NoRid == "None"
FreshUuid == "uuid4"
RequestIds == {NoRid, "7"}

\* outcomes of client.invoke_agent: a response, or an exception by class
NoResult == [kind |-> "none", text |-> ""]
InvokeResults ==
    { [kind |-> "ok",         text |-> "hello"],
      [kind |-> "ValueError", text |-> "bad json"],
      [kind |-> "Exception",  text |-> "timeout"] }

\* raise HTTPException(status_code=..., detail=...)
HttpError(status, detail) == [status |-> status, kind |-> "http", text |-> detail]
\* a JSON body or stream item sent with the 200 response
Reply(kind, text) == [status |-> 200, kind |-> kind, text |-> text]

\* a2a_request_to_agentcore_payload: ValueError when params.message.parts[0]
\* has no text, else the payload
TranslateRequest(body) == IF body = "noparts" THEN "ValueError" ELSE "payload"

\* agentcore_response_to_a2a_message
ResponseMessage(res) == Reply("response", res.text)

\* agentcore_streaming_to_a2a_chunks
StreamChunks(res) == << Reply("chunk", res.text), Reply("done", "") >>

\* _handle_a2a_regular from the return of client.invoke_agent on
RegularReply(res) ==
    IF res.kind = "ok" THEN << ResponseMessage(res) >>
    ELSE IF res.kind = "ValueError" THEN << HttpError(400, res.text) >>
    ELSE << Reply("error", "Agent execution failed: " \o res.text) >>

\* except-branch of a stream_generator: one error item, and the generator ends
StreamFailureThenDone(text) == << Reply("error", text), Reply("done", "[DONE]") >>
StreamFailure(text) == << Reply("error", text) >>

\* stream_generator of _handle_a2a_streaming from the return of
\* client.invoke_agent on
StreamReply(res) ==
    IF res.kind = "ok" THEN StreamChunks(res)
    ELSE StreamFailure("Agent execution failed: " \o res.text)

(* ------------------------- direct streaming --------------------------- *)
\* a line of the upstream body as iter_lines() gives it: with or without the
\* "data: " prefix, then its text
BlankLine == [data |-> FALSE, text |-> ""]
UpLines ==
    { BlankLine,
      [data |-> FALSE, text |-> "t1"],
      [data |-> TRUE,  text |-> "[DONE]"] }
Upstreams == SeqsUpTo(UpLines, MaxLines)

\* how the body behaves once its lines are read: it ends, the read raises,
\* or no further byte ever arrives
Endings == {"eof", "raise", "stall"}

\* outcomes of client.invoke_agent(..., streaming=True)
StreamResults ==
    { [kind |-> "ok",        text |-> "hello", streaming |-> FALSE],
      [kind |-> "ok",        text |-> "",      streaming |-> TRUE],
      [kind |-> "Exception", text |-> "timeout", streaming |-> FALSE] }

\* "if line:"
Truthy(line) == line.data \/ line.text # ""
\* line.decode("utf-8") and the removal of a leading "data: "
StripData(line) == line.text
\* "if line == '[DONE]': break"
NeverEndsForwarding(text) == FALSE
EndsForwarding(text) == text = "[DONE]"

\* the for-loop over iter_lines from line i on, up to its next yield or its
\* end: lines that are not truthy are passed over
RECURSIVE NextLine(_, _)
NextLine(lines, i) ==
    IF i > Len(lines) THEN i
    ELSE IF Truthy(lines[i]) THEN i
    ELSE NextLine(lines, i + 1)

(* ----------------------- response text extraction ---------------------- *)
\* a text is the sequence of its characters; " " is a whitespace character
Chars == {" ", "a"}
Texts == SeqsUpTo(Chars, MaxText)

\* an item of result.content: a dict with or without the key "text"
ContentItems ==
    { [hasText |-> TRUE, text |-> t] : t \in Texts }
        \cup { [hasText |-> FALSE, text |-> <<>>] }

\* what invoke_agent returns: a dict with result.content, a dict whose result
\* has no content, a dict without result, or a value that is not a dict
BackendResponses ==
    { [shape |-> "content", content |-> c] : c \in SeqsUpTo(ContentItems, MaxItems) }
        \cup { [shape |-> s, content |-> <<>>] : s \in {"nocontent", "noresult", "notdict"} }
NoResponse == [shape |-> "", content |-> <<>>]

\* str.strip(): the text without its leading and trailing whitespace
RECURSIVE LStrip(_)
LStrip(t) == IF t # <<>> /\ Head(t) = " " THEN LStrip(Tail(t)) ELSE t
RECURSIVE RStrip(_)
RStrip(t) ==
    IF t # <<>> /\ t[Len(t)] = " " THEN RStrip(SubSeq(t, 1, Len(t) - 1)) ELSE t
Strip(t) == RStrip(LStrip(t))

\* "".join(text_parts): text_parts holds the "text" of every item from the
\* i-th on that has one
RECURSIVE JoinTexts(_, _)
JoinTexts(content, i) ==
    IF i > Len(content) THEN <<>>
    ELSE (IF content[i].hasText THEN content[i].text ELSE <<>>)
             \o JoinTexts(content, i + 1)

\* what a translation gives: a text, str(response), the response itself as
\* the JSON body, or the fixed text "No response received from agent"
TextOf(t) == [kind |-> "text", text |-> t, of |-> NoResponse]
Rendering(response) == [kind |-> "str", text |-> <<>>, of |-> response]
JsonBody(response) == [kind |-> "json", text |-> <<>>, of |-> response]
NoResponseReceived == [kind |-> "No response received from agent", text |-> <<>>, of |-> NoResponse]

\* a2a_proxy.AgentCoreExecutor.execute: response_text
ExecuteText(response) ==
    IF response.shape = "content"
    THEN TextOf(Strip(JoinTexts(response.content, 1)))
    ELSE Rendering(response)

\* a2a_proxy.handle_jsonrpc_request: the value returned
JsonRpcResult(response) ==
    IF response.shape = "content"
    THEN TextOf(Strip(JoinTexts(response.content, 1)))
    ELSE JsonBody(response)

\* agentcore_executor.AgentCoreExecutor._execute_single_response: response_text
SingleResponseText(response) ==
    LET content == response.content
        found == IF response.shape = "content" /\ Len(content) > 0 /\ content[1].hasText
                 THEN content[1].text ELSE <<>>
    IN  IF found = <<>> THEN NoResponseReceived ELSE TextOf(found)

Translators == {"execute", "handle_jsonrpc_request", "_execute_single_response"}
Translate(by, response) ==
    CASE by = "execute" -> ExecuteText(response)
      [] by = "handle_jsonrpc_request" -> JsonRpcResult(response)
      [] by = "_execute_single_response" -> SingleResponseText(response)

\* agentcore_executor.AgentCoreExecutor._extract_chunk_text
ExtractChunkText(chunk) ==
    IF chunk.shape = "content" /\ Len(chunk.content) > 0 /\ chunk.content[1].hasText
    THEN TextOf(chunk.content[1].text)
    ELSE Rendering(chunk)

\* "if chunk_text:"
NonEmpty(text) == text # TextOf(<<>>)

\* the request context of execute: context.message is None, has an empty
\* parts list, or has a first part with a text
Contexts == {"no message", "no parts", "text"}
RequestTask == "task-1"         \* context.task_id
RequestContext == "context-1"   \* context.message.contextId
NoTask == "None"

\* message_text as execute extracts it
PromptOf(context) == IF context = "text" THEN "hello" ELSE ""
\* whether execute gets to its call of invoke_agent
CallsOnlyWithMessage(context) == context = "text"
CallsBackend(context) == TRUE

\* the text of the except-branch of execute: f"Error: {e}" in a2a_proxy.py,
\* f"Error executing agent: {e}" in agentcore_executor.py
LegacyErrorMessage == [kind |-> "Error", text |-> <<>>, of |-> NoResponse]
ErrorMessage == [kind |-> "Error executing agent", text |-> <<>>, of |-> NoResponse]
ErrorOf(by) == IF by = "execute" THEN LegacyErrorMessage ELSE ErrorMessage

\* Message(...) as the executor of a2a_proxy.py builds it (taskId and
\* contextId), and as the one of agentcore_executor.py does (context_id only)
Message(by, context, body) ==
    [body |-> body,
     taskId |-> IF by = "execute" THEN RequestTask ELSE NoTask,
     contextId |-> IF context = "no message" THEN FreshUuid ELSE RequestContext]

\* the messages _execute_streaming puts on the event queue for the chunks
\* from the i-th on
RECURSIVE StreamMessages(_, _)
StreamMessages(chunks, i) ==
    IF i > Len(chunks) THEN <<>>
    ELSE LET text == ExtractChunkText(chunks[i])
         IN  (IF NonEmpty(text) THEN << Message("_execute_streaming", "text", text) >>
              ELSE <<>>) \o StreamMessages(chunks, i + 1)

ChunkStreams == SeqsUpTo(BackendResponses, MaxChunks)

IdleExecutor ==
    [pc |-> "idle", by |-> "", response |-> NoResponse, out |-> TextOf(<<>>),
     chunks |-> <<>>, ending |-> "", sent |-> <<>>,
     context |-> "text", prompt |-> "", calls |-> 0, failed |-> FALSE, raised |-> FALSE]

IdleRequest ==
    [pc |-> "idle", route |-> "", target |-> "", known |-> FALSE, body |-> "",
     stream |-> FALSE, calls |-> 0, res |-> NoResult, orphan |-> FALSE, out |-> <<>>,
     up |-> <<>>, at |-> 0, ending |-> "", rid |-> NoRid,
     streamingEnabled |-> FALSE]

\* no call of aws_proxy_startup or init_proxy_app made yet: no polling
\* task, neither attribute of app.state set
NoPolling == [all |-> <<>>, aws_polling_task |-> 0, polling_task |-> 0]

VARIABLES
    pc,          \* position of startup / the polling task
    agents,      \* A2AProxy.agents
    appClient,   \* app.state.client: "unset", "none" or "ok"
    appHasProxy, \* hasattr(app.state, "proxy")
    proxyClient, \* A2AProxy.client: "none" or "ok"
    appAgents,   \* app.state.agents
    hasHook,     \* app.state.on_agents_refresh_handler is set
    cycles,      \* polling cycles started
    last,        \* history: the most recently run discovery cycle
    pre,         \* history: registry at the latest cycle boundary (start of the
                 \* running or failed cycle, end of a successful one)
    committed,   \* history: registry installed by the last successful cycle
    gens,        \* history: every registry a cycle installed, and the initial one
    lastRead,    \* history: registry contents at the latest read
    req,         \* the request handlers: position, inputs, replies sent
    pollingAttr, \* attribute of app.state that holds the polling task
    down,        \* aws_proxy_shutdown has run to its end
    executor,    \* an AgentCoreExecutor: position, backend response, text it extracted
    tasks        \* the calls of aws_proxy_startup / init_proxy_app and their polling tasks

vars == << pc, agents, appClient, appHasProxy, proxyClient, appAgents, hasHook,
           cycles, last, pre, committed, gens, lastRead, req, pollingAttr, down, executor, tasks >>

\* ids of the records of a list that carry an id
CarriedIds(list) == { list[i].id : i \in DOMAIN list } \cap Ids

NoCycle == [kind |-> "none", startup |-> FALSE, ids |-> {}, steps |-> <<>>,
            hook |-> "none"]

\* lifespan: requests are served between the end of aws_proxy_startup and
\* the start of aws_proxy_shutdown
ServingDuringStartup == pc \in {"st_list", "st_hook", "sleep", "list", "hook"}
Serving == pc \in {"sleep", "list", "hook"}

\* the one event loop runs its tasks: no handler sits in a blocking call
\* ("for line in response_iterator.iter_lines(...)" waiting for a line)
LoopFree == \A r \in Reqs : req[r].pc # "stalled"

Init ==
    /\ pc = "init"
    /\ agents = EmptyAgents
    /\ appClient = "unset"
    /\ appHasProxy = FALSE
    /\ proxyClient = "none"
    /\ appAgents = <<>>
    /\ hasHook \in BOOLEAN
    /\ cycles = 0
    /\ last = NoCycle
    /\ pre = EmptyAgents
    /\ committed = EmptyAgents
    /\ gens = { EmptyAgents }
    /\ lastRead = EmptyAgents
    /\ req = [r \in Reqs |-> IdleRequest]
    /\ pollingAttr = "aws_polling_task"
    /\ down = FALSE
    /\ executor = IdleExecutor
    /\ tasks = NoPolling

\* aws_proxy_startup up to the first suspension of the startup cycle:
\* AgentCoreClient(region=...) either succeeds or raises.
Startup ==
    /\ pc = "init"
    /\ \E created \in BOOLEAN :
         IF created
         THEN /\ appClient' = "ok"
              /\ pc' = "st_list"
              /\ UNCHANGED << appHasProxy, appAgents, last >>
         ELSE IF ClientFailureRaises(TRUE)
         THEN /\ pc' = "crashed"
              /\ last' = [NoCycle EXCEPT !.kind = "noclient", !.startup = TRUE]
              /\ UNCHANGED << appClient, appHasProxy, appAgents >>
         ELSE /\ appClient' = "none"
              /\ appAgents' = <<>>
              /\ appHasProxy' = TRUE
              /\ pc' = "sleep"
              /\ last' = [NoCycle EXCEPT !.kind = "noclient", !.startup = TRUE]
    /\ UNCHANGED << agents, proxyClient, hasHook, cycles, pre, committed, gens, lastRead, req, pollingAttr, down, executor, tasks >>

\* the steps of a cycle, as the history last.steps keeps them: the call of
\* list_agents(), the replacement of the registry, the call of the
\* on_agents_refresh_handler and the log line "polling: discovered ..."
ListStep(listed) == IF listed THEN "list" ELSE "list raised"
\* lines 133-153 up to the next suspension, with and without a handler
SummaryThenHook(hook) == IF hook THEN << "summary", "hook" >> ELSE << "summary" >>
AfterReplace(hook) == IF hook THEN << "hook" >> ELSE << "summary" >>
\* lines 140-153, from the return or the exception of the handler on
AfterHook == << "summary" >>
\* where the cycle goes from an exception of the handler: "except Exception"
\* of line 140 catches it and the cycle runs on to its return
HookFailurePropagates(isStartup) == IF isStartup THEN "crashed" ELSE PollingAfterException
AfterHookFailure(isStartup) == "sleep"

\* Lines 119-131 of discover_and_refresh_agents, run without suspension:
\* clear, initialize_agents, app.state.agents = agents.  listed tells whether
\* list_agents() returned the list (else it raised and the list is []).
Install(list, isStartup, listed) ==
    LET cleared == IF appHasProxy THEN ClearAgents(agents) ELSE agents
        built   == InitializeAgents(cleared, list)
    IN  /\ agents' = built.agents
        /\ appHasProxy' = TRUE
        /\ proxyClient' = IF appHasProxy THEN proxyClient ELSE appClient
        /\ IF built.raised
           THEN /\ pc' = IF isStartup THEN "crashed" ELSE PollingAfterException
                /\ last' = [kind |-> "buildfail", startup |-> isStartup,
                            ids |-> CarriedIds(list),
                            steps |-> << ListStep(listed), "initialize_agents raised" >>,
                            hook |-> "none"]
                /\ UNCHANGED << appAgents, pre, committed, gens >>
           ELSE /\ pc' = IF hasHook THEN (IF isStartup THEN "st_hook" ELSE "hook")
                         ELSE "sleep"
                /\ last' = [kind |-> IF listed THEN "ok" ELSE "listfail",
                            startup |-> isStartup, ids |-> CarriedIds(list),
                            steps |-> << ListStep(listed), "replace" >>
                                          \o AfterReplace(hasHook),
                            hook |-> "none"]
                /\ pre' = IF listed THEN built.agents ELSE pre
                /\ appAgents' = list
                /\ committed' = built.agents
                /\ gens' = gens \cup { built.agents }

\* client.list_agents() returns one of the given lists
ListReturnsFrom(lists) ==
    /\ LoopFree
    /\ pc \in {"st_list", "list"}
    /\ appClient = "ok"
    /\ \E list \in lists : Install(list, pc = "st_list", TRUE)
    /\ UNCHANGED << appClient, hasHook, cycles, lastRead, req, pollingAttr, down, executor, tasks >>

ListReturns == ListReturnsFrom(AgentLists)

\* client.list_agents() raises (always when app.state.client is None)
ListRaises ==
    /\ LoopFree
    /\ pc \in {"st_list", "list"}
    /\ IF ListFailureProceeds(pc = "st_list")
       THEN Install(<<>>, pc = "st_list", FALSE)
       ELSE /\ pc' = "sleep"
            /\ last' = [kind |-> "listfail", startup |-> FALSE, ids |-> {},
                        steps |-> << ListStep(FALSE) >>, hook |-> "none"]
            /\ UNCHANGED << agents, appHasProxy, proxyClient, appAgents, pre, committed, gens >>
    /\ UNCHANGED << appClient, hasHook, cycles, lastRead, req, pollingAttr, down, executor, tasks >>

\* on_agents_refresh_handler(agents) returns or raises; both are followed by
\* the summary log line and the return.
HookReturns ==
    /\ LoopFree
    /\ pc \in {"st_hook", "hook"}
    /\ \E raised \in BOOLEAN :
         /\ pc' = IF raised THEN AfterHookFailure(pc = "st_hook") ELSE "sleep"
         /\ last' = [last EXCEPT !.steps = @ \o AfterHook,
                                 !.hook = IF raised THEN "raised" ELSE "returned"]
    /\ UNCHANGED << agents, appClient, appHasProxy, proxyClient, appAgents, hasHook,
                    cycles, pre, committed, gens, lastRead, req, pollingAttr, down, executor, tasks >>

\* asyncio.sleep returns and the loop enters discover_and_refresh_agents
PollWake ==
    /\ LoopFree
    /\ pc = "sleep"
    /\ cycles < MaxCycles
    /\ pc' = "list"
    /\ cycles' = cycles + 1
    /\ pre' = agents
    /\ UNCHANGED << agents, appClient, appHasProxy, proxyClient, appAgents, hasHook,
                    last, committed, gens, lastRead, req, pollingAttr, down, executor, tasks >>

\* aws_proxy_shutdown with app.state.aws_polling_task set: the polling task
\* is cancelled at its suspension point
ShutdownCancel ==
    /\ LoopFree
    /\ pc \in {"sleep", "list", "hook"}
    /\ pollingAttr = "aws_polling_task"
    /\ ~down
    /\ pc' = "cancelled"
    /\ UNCHANGED << agents, appClient, appHasProxy, proxyClient, appAgents, hasHook,
                    cycles, last, pre, committed, gens, lastRead, req, pollingAttr, down, executor, tasks >>

\* aws_proxy_shutdown: the cancelled task has ended, proxy.shutdown()
ProxyShutdown ==
    /\ LoopFree
    /\ pc = "cancelled"
    /\ pc' = "down"
    /\ agents' = ClearAgents(agents)
    /\ down' = TRUE
    /\ UNCHANGED << appClient, appHasProxy, proxyClient, appAgents, hasHook,
                    cycles, last, pre, committed, gens, lastRead, req, pollingAttr, executor, tasks >>

\* aws_proxy_shutdown without app.state.aws_polling_task (init_proxy_app
\* keeps the task in app.state.polling_task): nothing is cancelled, and
\* proxy.shutdown() clears the registry
ShutdownLeavesTask ==
    /\ LoopFree
    /\ pc \in {"sleep", "list", "hook"}
    /\ pollingAttr # "aws_polling_task"
    /\ ~down
    /\ agents' = ClearAgents(agents)
    /\ down' = TRUE
    /\ UNCHANGED << pc, appClient, appHasProxy, proxyClient, appAgents, hasHook,
                    cycles, last, pre, committed, gens, lastRead, req, pollingAttr, executor, tasks >>

\* GET /a2a/agents and GET /agentcore/agents: iterate self.agents
ListRead ==
    /\ LoopFree
    /\ Serving
    /\ lastRead' = agents
    /\ UNCHANGED << pc, agents, appClient, appHasProxy, proxyClient, appAgents, hasHook,
                    cycles, last, pre, committed, gens, req, pollingAttr, down, executor, tasks >>

Next ==
    \/ Startup
    \/ ListReturns
    \/ ListRaises
    \/ HookReturns
    \/ PollWake
    \/ ShutdownCancel
    \/ ProxyShutdown
    \/ ListRead

Spec == Init /\ [][Next]_vars

(* --------------------------- request handlers -------------------------- *)
discoveryVars == << pc, agents, appClient, appHasProxy, proxyClient, appAgents, hasHook,
                    cycles, last, pre, committed, gens, pollingAttr, down, executor, tasks >>
handlerFrame == << pc, appClient, appHasProxy, proxyClient, appAgents, hasHook,
                   cycles, last, pre, committed, gens, pollingAttr, down, executor, tasks >>

\* self.agents as a handler that served agent_id leaves it: no handler has a
\* statement that assigns, adds or removes an entry
HandlerEvictsTarget(reg, id) == [x \in (DOMAIN reg) \ {id} |-> reg[x]]
HandlerLeavesAgents(reg, id) == reg

\* the handler of request record q returns or raises: replies is what it sends
Finish(q, replies) ==
    [q EXCEPT !.pc = "done", !.out = replies,
              !.orphan = q.known /\ q.target \notin DOMAIN agents]

\* the "id" of the JSON object sent as reply by the handler of request record
\* q: the translators are handed request_data.get("id"), the error of
\* _handle_a2a_regular has no "id", and an error item of stream_generator has
\* request_data.get("id", str(uuid.uuid4()))
Envelopes == {"response", "chunk", "done", "error"}
\* agentcore_response_to_a2a_message, agentcore_streaming_to_a2a_chunks: the
\* "id" of what they build from the id they are handed
TranslatedId(rid) == rid
EnvelopeId(q, reply) ==
    CASE reply.kind \in {"response", "chunk", "done"} -> TranslatedId(q.rid)
      [] reply.kind = "error" /\ ~q.stream -> NoRid
      [] reply.kind = "error" /\ q.stream -> IF q.rid = NoRid THEN FreshUuid ELSE q.rid
      [] OTHER -> NoRid

\* POST /a2a/agent/{agent_id}: handle_a2a_agent_messages up to "await request.json()"
ArriveAt(r, id) ==
    /\ Serving
    /\ LoopFree
    /\ req[r].pc = "idle"
    /\ LET got == [req[r] EXCEPT !.route = "a2a", !.target = id,
                                 !.known = id \in DOMAIN agents]
       IN  /\ req' = [req EXCEPT ![r] =
                 IF Registered(agents, id)
                 THEN [got EXCEPT !.pc = "json"]
                 ELSE Finish(got, << HttpError(404, "Agent " \o id \o " not found") >>)]
           /\ agents' = HandlerLeavesAgents(agents, id)
    /\ lastRead' = agents
    /\ UNCHANGED handlerFrame

Arrive(r) == \E id \in Targets : ArriveAt(r, id)

\* _handle_a2a_regular up to "await self.client.invoke_agent(...)"
RegularBegin(q) ==
    IF TranslateRequest(q.body) = "ValueError"
    THEN Finish(q, << HttpError(400, "missing text") >>)
    ELSE IF proxyClient = "none"
    THEN Finish(q, << Reply("error",
                      "Agent execution failed: 503: AgentCore client not initialized") >>)
    ELSE [q EXCEPT !.pc = "invoke", !.calls = @ + 1]

\* _handle_a2a_streaming and its stream_generator up to
\* "await self.client.invoke_agent(...)"
StreamingBegin(q) ==
    IF TranslateRequest(q.body) = "ValueError"
    THEN Finish(q, << HttpError(400, "missing text") >>)
    ELSE IF proxyClient = "none"
    THEN Finish(q, << Reply("error", "AgentCore client not initialized") >>)
    ELSE [q EXCEPT !.pc = "invoke", !.calls = @ + 1]

\* handle_a2a_agent_messages from the return of request.json() on; a body
\* that is not JSON has no method, the others are message/stream or not
JsonParsed(r) ==
    /\ Serving
    /\ LoopFree
    /\ req[r].pc = "json"
    /\ \E body \in Bodies, stream \in BOOLEAN, rid \in RequestIds :
         /\ body = "badjson" => ~stream
         /\ body # "ok" => rid = NoRid
         /\ LET got == [req[r] EXCEPT !.body = body, !.stream = stream, !.rid = rid]
            IN  req' = [req EXCEPT ![r] =
                   IF body = "badjson"
                   THEN Finish(got, << HttpError(400, "Invalid JSON") >>)
                   ELSE IF stream THEN StreamingBegin(got) ELSE RegularBegin(got)]
    /\ agents' = HandlerLeavesAgents(agents, req[r].target)
    /\ UNCHANGED << handlerFrame, lastRead >>

\* client.invoke_agent returns or raises, and the handler runs to its end
InvokeReturns(r) ==
    /\ Serving
    /\ LoopFree
    /\ req[r].pc = "invoke"
    /\ req[r].route = "a2a"
    /\ \E res \in InvokeResults :
         req' = [req EXCEPT ![r] =
                   Finish([req[r] EXCEPT !.res = res],
                          IF req[r].stream THEN StreamReply(res) ELSE RegularReply(res))]
    /\ agents' = HandlerLeavesAgents(agents, req[r].target)
    /\ UNCHANGED << handlerFrame, lastRead >>

\* the lists of the serving specification: a1 comes and goes
ServeLists == SeqsUpTo({ [id |-> "a1", status |-> "READY"] }, MaxAgents)

ServeListReturns == ListReturnsFrom(ServeLists)

ServeNext ==
    \/ Startup
    \/ ServeListReturns
    \/ ListRaises
    \/ HookReturns
    \/ PollWake
    \/ ShutdownCancel
    \/ ProxyShutdown
    \/ \E r \in Reqs : Arrive(r)
    \/ \E r \in Reqs : JsonParsed(r)
    \/ \E r \in Reqs : InvokeReturns(r)

\* discovery with requests in flight
ServeSpec == Init /\ [][ServeNext]_vars

\* the lists of the routing specification: a1 with its status READY or any
\* other string
OtherStatus == "DELETING"
RouteLists ==
    SeqsUpTo({ [id |-> "a1", status |-> "READY"], [id |-> "a1", status |-> OtherStatus] },
             MaxAgents)

RouteListReturns == ListReturnsFrom(RouteLists)

\* discovery with one caller of the A2A endpoint
RouteCallers == {"r1"}

RouteNext ==
    \/ Startup
    \/ RouteListReturns
    \/ ListRaises
    \/ HookReturns
    \/ PollWake
    \/ ShutdownCancel
    \/ ProxyShutdown
    \/ \E r \in RouteCallers : Arrive(r)
    \/ \E r \in RouteCallers : JsonParsed(r)
    \/ \E r \in RouteCallers : InvokeReturns(r)

RouteSpec == Init /\ [][RouteNext]_vars

(* ------------------ direct streaming endpoint -------------------------- *)
DoneMarker == Reply("done", "[DONE]")

\* POST /agentcore/agents/{agent_id}/invoke-stream up to
\* "await self.client.invoke_agent(agent_id, {...}, streaming=True)"
StreamArrive(r) ==
    /\ Serving
    /\ LoopFree
    /\ req[r].pc = "idle"
    /\ \E id \in Targets :
         LET got == [req[r] EXCEPT !.route = "invoke-stream", !.target = id,
                                   !.known = id \in DOMAIN agents, !.stream = TRUE]
         IN  /\ req' = [req EXCEPT ![r] =
                   IF ~Registered(agents, id)
                   THEN Finish(got, << HttpError(404, "Agent " \o id \o " not found") >>)
                   ELSE IF proxyClient = "none"
                   THEN Finish(got, << Reply("error", "AgentCore client not initialized") >>)
                   ELSE [got EXCEPT !.pc = "invoke", !.calls = @ + 1]]
             /\ agents' = HandlerLeavesAgents(agents, id)
    /\ lastRead' = agents
    /\ UNCHANGED handlerFrame

\* client.invoke_agent(..., streaming=True) returns or raises: the generator
\* runs to its first yield.  A response that is not streaming is sent as one
\* item, and only the "[DONE]" item is left to send.
StreamInvokeReturns(r) ==
    /\ Serving
    /\ LoopFree
    /\ req[r].pc = "invoke"
    /\ req[r].route = "invoke-stream"
    /\ \E res \in StreamResults, lines \in Upstreams :
         /\ ~res.streaming => lines = <<>>
         /\ LET got == [req[r] EXCEPT !.res = [kind |-> res.kind, text |-> res.text]]
            IN  req' = [req EXCEPT ![r] =
                   IF res.kind # "ok" THEN Finish(got, StreamFailure(res.text))
                   ELSE IF res.streaming
                   THEN [got EXCEPT !.pc = "lines", !.up = lines, !.at = 1]
                   ELSE [got EXCEPT !.pc = "tail", !.out = << Reply("chunk", res.text) >>]]
    /\ agents' = HandlerLeavesAgents(agents, req[r].target)
    /\ UNCHANGED << handlerFrame, lastRead >>

\* the generator is resumed after a yield and runs to its next yield or to
\* its end; iter_lines() is read inside this step, on the event loop
StreamLine(r) ==
    /\ Serving
    /\ LoopFree
    /\ req[r].pc \in {"lines", "tail"}
    /\ LET q == req[r]
           i == NextLine(q.up, q.at)
       IN  \/ /\ q.pc = "tail"
              /\ req' = [req EXCEPT ![r] = Finish(q, Append(q.out, DoneMarker))]
           \/ /\ q.pc = "lines"
              /\ i <= Len(q.up)
              /\ req' = [req EXCEPT ![r] =
                    IF EndsForwarding(StripData(q.up[i]))
                    THEN Finish(q, Append(q.out, DoneMarker))
                    ELSE [q EXCEPT !.out = Append(@, Reply("chunk", StripData(q.up[i]))),
                                   !.at = i + 1]]
           \/ /\ q.pc = "lines"
              /\ i > Len(q.up)
              /\ \E ending \in Endings :
                   LET got == [q EXCEPT !.ending = ending, !.at = i]
                   IN  req' = [req EXCEPT ![r] =
                          IF ending = "eof" THEN Finish(got, Append(q.out, DoneMarker))
                          ELSE IF ending = "raise"
                          THEN Finish(got, q.out \o StreamFailure("read timed out"))
                          ELSE [got EXCEPT !.pc = "stalled"]]
    /\ agents' = HandlerLeavesAgents(agents, req[r].target)
    /\ UNCHANGED << handlerFrame, lastRead >>

\* one caller of the direct streaming endpoint, the other callers send A2A
StreamCallers == {"r1"}
A2ACallers == Reqs \ StreamCallers

StreamNext ==
    \/ Startup
    \/ ServeListReturns
    \/ ListRaises
    \/ HookReturns
    \/ PollWake
    \/ ShutdownCancel
    \/ ProxyShutdown
    \/ \E r \in StreamCallers : StreamArrive(r)
    \/ \E r \in StreamCallers : StreamInvokeReturns(r)
    \/ \E r \in StreamCallers : StreamLine(r)
    \/ \E r \in A2ACallers : Arrive(r)
    \/ \E r \in A2ACallers : JsonParsed(r)
    \/ \E r \in A2ACallers : InvokeReturns(r)

\* discovery with a direct stream and an A2A request in flight
StreamSpec == Init /\ [][StreamNext]_vars

(* ---------------- direct invocation and A2AProxy.invoke_agent ----------- *)
\* what a Python caller of a coroutine gets: a returned value or an exception
Raised(class, text) == [status |-> 0, kind |-> class, text |-> text]
Returned(text) == [status |-> 0, kind |-> "return", text |-> text]

\* the checks invoke_agentcore_agent makes before it calls the client, as
\* the status it raises, or 0 when both pass
ClientCheckedFirst(known, client) ==
    IF client = "none" THEN 503 ELSE IF ~known THEN 404 ELSE 0
DirectCheck(known, client) ==
    IF ~known THEN 404 ELSE IF client = "none" THEN 503 ELSE 0

\* POST /agentcore/agents/{agent_id}/invoke up to
\* "await self.client.invoke_agent(agent_id, payload)"
DirectArrive(r) ==
    /\ Serving
    /\ LoopFree
    /\ req[r].pc = "idle"
    /\ \E id \in Targets :
         LET got == [req[r] EXCEPT !.route = "invoke", !.target = id,
                                   !.known = id \in DOMAIN agents]
             check == DirectCheck(Registered(agents, id), proxyClient)
         IN  /\ req' = [req EXCEPT ![r] =
                   IF check = 404
                   THEN Finish(got, << HttpError(404, "Agent " \o id \o " not found") >>)
                   ELSE IF check = 503
                   THEN Finish(got, << HttpError(503, "AgentCore client not initialized") >>)
                   ELSE [got EXCEPT !.pc = "invoke", !.calls = @ + 1]]
             /\ agents' = HandlerLeavesAgents(agents, id)
    /\ lastRead' = agents
    /\ UNCHANGED handlerFrame

\* client.invoke_agent returns the raw result, or raises and the endpoint
\* answers 500
DirectReturns(r) ==
    /\ Serving
    /\ LoopFree
    /\ req[r].pc = "invoke"
    /\ req[r].route = "invoke"
    /\ \E res \in InvokeResults :
         req' = [req EXCEPT ![r] =
                   Finish([req[r] EXCEPT !.res = res],
                          IF res.kind = "ok" THEN << Reply("raw", res.text) >>
                          ELSE << HttpError(500, res.text) >>)]
    /\ agents' = HandlerLeavesAgents(agents, req[r].target)
    /\ UNCHANGED << handlerFrame, lastRead >>

\* A2AProxy.invoke_agent(agent_id, payload) up to
\* "await self.client.invoke_agent(agent_id, payload)"
ApiArrive(r) ==
    /\ Serving
    /\ LoopFree
    /\ req[r].pc = "idle"
    /\ \E id \in Targets :
         LET got == [req[r] EXCEPT !.route = "api", !.target = id,
                                   !.known = id \in DOMAIN agents]
         IN  /\ req' = [req EXCEPT ![r] =
                   IF ~Registered(agents, id)
                   THEN Finish(got, << Raised("ValueError", "Agent " \o id \o " not found") >>)
                   ELSE IF proxyClient = "none"
                   THEN Finish(got, << Raised("ValueError", "AgentCore client not initialized") >>)
                   ELSE [got EXCEPT !.pc = "invoke", !.calls = @ + 1]]
             /\ agents' = HandlerLeavesAgents(agents, id)
    /\ lastRead' = agents
    /\ UNCHANGED handlerFrame

\* client.invoke_agent returns and the result is returned, or it raises and
\* the exception is logged and raised again
ApiReturns(r) ==
    /\ Serving
    /\ LoopFree
    /\ req[r].pc = "invoke"
    /\ req[r].route = "api"
    /\ \E res \in InvokeResults :
         req' = [req EXCEPT ![r] =
                   Finish([req[r] EXCEPT !.res = res],
                          IF res.kind = "ok" THEN << Returned(res.text) >>
                          ELSE << Raised(res.kind, res.text) >>)]
    /\ agents' = HandlerLeavesAgents(agents, req[r].target)
    /\ UNCHANGED << handlerFrame, lastRead >>

(* ------------------------ mounted in a host app ------------------------ *)
\* init_proxy_app(app) called by a host application that put its own
\* AgentCoreClient into app.state.client and its own A2AProxy, built with a
\* client or with the default None, into app.state.proxy: the startup cycle
\* takes both from app.state and is at "await client.list_agents()".
EmbeddedInit ==
    /\ pc = "st_list"
    /\ agents = EmptyAgents
    /\ appClient = "ok"
    /\ appHasProxy = TRUE
    /\ proxyClient \in {"none", "ok"}
    /\ appAgents = <<>>
    /\ hasHook = FALSE
    /\ cycles = 0
    /\ last = NoCycle
    /\ pre = EmptyAgents
    /\ committed = EmptyAgents
    /\ gens = { EmptyAgents }
    /\ lastRead = EmptyAgents
    /\ req = [r \in Reqs |-> IdleRequest]
    /\ pollingAttr = "polling_task"
    /\ down = FALSE
    /\ executor = IdleExecutor
    /\ tasks = NoPolling

EmbeddedNext ==
    \/ ServeListReturns
    \/ ListRaises
    \/ PollWake
    \/ ShutdownLeavesTask
    \/ ListRead
    \/ \E r \in Reqs : Arrive(r)
    \/ \E r \in Reqs : JsonParsed(r)
    \/ \E r \in Reqs : InvokeReturns(r)
    \/ \E r \in Reqs : DirectArrive(r)
    \/ \E r \in Reqs : DirectReturns(r)
    \/ \E r \in Reqs : ApiArrive(r)
    \/ \E r \in Reqs : ApiReturns(r)

\* the proxy mounted in a host application, with requests in flight
EmbeddedSpec == EmbeddedInit /\ [][EmbeddedNext]_vars

(* ------------------------- agent card endpoints ------------------------ *)
\* AgentCoreAgent.from_dict: data["agentRuntimeName"], data["agentRuntimeArn"],
\* data["status"] and data["lastUpdatedAt"] are read by subscript
HasCardFields(data) == data.status # NoFields

\* what a card endpoint sends with status 200: the documents of its JSON body
Documents(kind, docs) == [status |-> 200, kind |-> kind, text |-> "", docs |-> docs]
\* an exception that leaves a handler, as the application answers it
ServerError(class) == HttpError(500, class)

\* agentcore_agent_to_agentcard(agent_id, agent_data, base_url): the card, or
\* the KeyError of from_dict
AgentCard(id, data) ==
    IF HasCardFields(data)
    THEN [id |-> id, streaming |-> FALSE, raised |-> ""]
    ELSE [id |-> id, streaming |-> FALSE, raised |-> "KeyError"]

\* keyword arguments the definition of agentcore_agent_to_agentcard takes,
\* and those the card endpoints pass
CardParameters == {"base_url"}
CardArguments == {"base_url", "streaming_enabled", "description_as_skill"}

\* the call of agentcore_agent_to_agentcard made by the card endpoints
CallAgentCard(id, data, enabled) ==
    IF CardArguments \subseteq CardParameters
    THEN AgentCard(id, data)
    ELSE [id |-> id, streaming |-> FALSE, raised |-> "TypeError"]

\* the list comprehension of list_a2a_agents over self.agents.items()
CardsOf(reg, enabled) == { CallAgentCard(k, reg[k], enabled) : k \in DOMAIN reg }
ListCards(reg, enabled) ==
    LET cards == CardsOf(reg, enabled)
    IN  IF \E c \in cards : c.raised # ""
        THEN ServerError((CHOOSE c \in cards : c.raised # "").raised)
        ELSE Documents("cards", cards)

\* GET /a2a/agent/{agent_id}/.well-known/agent.json: get_agent_card_wellknown
CardRead(r) ==
    /\ Serving
    /\ LoopFree
    /\ req[r].pc = "idle"
    /\ \E id \in Targets \cup Ids, enabled \in BOOLEAN :
         LET got == [req[r] EXCEPT !.route = "card", !.target = id,
                                   !.known = id \in DOMAIN agents,
                                   !.streamingEnabled = enabled]
             card == CallAgentCard(id, agents[id], enabled)
         IN  req' = [req EXCEPT ![r] =
                 IF ~Registered(agents, id)
                 THEN Finish(got, << HttpError(404, "Agent " \o id \o " not found") >>)
                 ELSE IF card.raised # ""
                 THEN Finish(got, << ServerError(card.raised) >>)
                 ELSE Finish(got, << Documents("card", {card}) >>)]
    /\ lastRead' = agents
    /\ agents' = agents
    /\ UNCHANGED handlerFrame

\* GET /a2a/agents: list_a2a_agents
CardsRead(r) ==
    /\ Serving
    /\ LoopFree
    /\ req[r].pc = "idle"
    /\ \E enabled \in BOOLEAN :
         req' = [req EXCEPT ![r] =
                   Finish([req[r] EXCEPT !.route = "cards", !.streamingEnabled = enabled],
                          << ListCards(agents, enabled) >>)]
    /\ lastRead' = agents
    /\ agents' = agents
    /\ UNCHANGED handlerFrame

\* a2a_proxy.py get_agent_card: the card, its fields read with agent.get(...)
LegacyCard(id, data) == [id |-> id, streaming |-> TRUE, raised |-> ""]

\* GET /a2a/agent/{agent_id}/.well-known/agent.json of a2a_proxy.py
LegacyCardRead(r) ==
    /\ Serving
    /\ LoopFree
    /\ req[r].pc = "idle"
    /\ \E id \in Targets \cup Ids, enabled \in BOOLEAN :
         LET got == [req[r] EXCEPT !.route = "legacy_card", !.target = id,
                                   !.known = id \in DOMAIN agents,
                                   !.streamingEnabled = enabled]
         IN  req' = [req EXCEPT ![r] =
                 IF id \notin DOMAIN agents
                 THEN Finish(got, << HttpError(404, "Agent " \o id \o " not found") >>)
                 ELSE Finish(got, << Documents("card", {LegacyCard(id, agents[id])}) >>)]
    /\ lastRead' = agents
    /\ agents' = agents
    /\ UNCHANGED handlerFrame

\* discovery with one caller of the agent card endpoints
CardCallers == {"r1"}

CardNext ==
    \/ Startup
    \/ ListReturns
    \/ ListRaises
    \/ HookReturns
    \/ PollWake
    \/ ShutdownCancel
    \/ ProxyShutdown
    \/ \E r \in CardCallers : CardRead(r)
    \/ \E r \in CardCallers : CardsRead(r)
    \/ \E r \in CardCallers : LegacyCardRead(r)

CardSpec == Init /\ [][CardNext]_vars

(* --------------------------- /health and /ready ------------------------ *)
\* GET /health: the body returned, whatever app.state.client is
HealthNeedsClient(client) ==
    IF client = "ok" THEN Reply("healthy", "") ELSE HttpError(503, "unhealthy")
HealthReply(client) == Reply("healthy", "")

\* GET /health: health
Health(r) ==
    /\ Serving
    /\ LoopFree
    /\ req[r].pc = "idle"
    /\ req' = [req EXCEPT ![r] =
                 Finish([req[r] EXCEPT !.route = "health"], << HealthReply(appClient) >>)]
    /\ UNCHANGED << discoveryVars, lastRead >>

\* GET /ready up to "await request.app.state.client.list_agents()": without
\* the attribute the HTTPException(503) raised in the try is caught and raised
\* again as a 503, and a client that is None gives an AttributeError
ReadyBegin(client) ==
    CASE client = "unset" -> "Not ready: 503: AWS client not initialized"
      [] client = "none" -> "Not ready: 'NoneType' object has no attribute 'list_agents'"
      [] OTHER -> "call"

ReadyArrive(r) ==
    /\ Serving
    /\ LoopFree
    /\ req[r].pc = "idle"
    /\ LET got == [req[r] EXCEPT !.route = "ready"]
           begun == ReadyBegin(appClient)
       IN  req' = [req EXCEPT ![r] =
                     IF begun = "call"
                     THEN [got EXCEPT !.pc = "ready_list", !.calls = 1]
                     ELSE Finish(got, << HttpError(503, begun) >>)]
    /\ UNCHANGED << discoveryVars, lastRead >>

\* the list_agents() call of /ready returns a list or raises
ReadyAlwaysReady(raised) == Reply("ready", "ok")
ReadyOutcome(raised) ==
    IF raised THEN HttpError(503, "Not ready: timeout") ELSE Reply("ready", "ok")

ReadyReturns(r) ==
    /\ Serving
    /\ LoopFree
    /\ req[r].pc = "ready_list"
    /\ \E raised \in BOOLEAN :
         req' = [req EXCEPT ![r] =
                   Finish([req[r] EXCEPT !.res = [kind |-> IF raised THEN "Exception" ELSE "ok",
                                                 text |-> ""]],
                          << ReadyOutcome(raised) >>)]
    /\ UNCHANGED << discoveryVars, lastRead >>

\* discovery with one caller of /health and /ready
ProbeCallers == {"r2"}

ProbeNext ==
    \/ Startup
    \/ ListReturns
    \/ ListRaises
    \/ HookReturns
    \/ PollWake
    \/ ShutdownCancel
    \/ ProxyShutdown
    \/ \E r \in ProbeCallers : Health(r)
    \/ \E r \in ProbeCallers : ReadyArrive(r)
    \/ \E r \in ProbeCallers : ReadyReturns(r)

ProbeSpec == Init /\ [][ProbeNext]_vars

(* ------------------- translation of backend responses ------------------ *)
translateFrame == << pc, agents, appClient, appHasProxy, proxyClient, appAgents, hasHook,
                     cycles, last, pre, committed, gens, lastRead, req, pollingAttr, down, tasks >>

\* a translating handler runs up to "await ....invoke_agent(...)"
ExecutorInvokes ==
    /\ executor.pc \in {"idle", "done"}
    /\ \E by \in Translators, context \in Contexts :
         /\ by = "handle_jsonrpc_request" => context = "text"
         /\ executor' = [IdleExecutor EXCEPT
                           !.pc = "invoking", !.by = by, !.context = context,
                           !.prompt = PromptOf(context),
                           !.calls = IF CallsBackend(context) THEN 1 ELSE 0]
    /\ UNCHANGED translateFrame

\* the two executors put their one message on the event queue;
\* handle_jsonrpc_request returns its value
Enqueued(by, context, body) ==
    IF by = "handle_jsonrpc_request" THEN <<>> ELSE << Message(by, context, body) >>

\* invoke_agent returns, and the handler extracts the text of the response
ExecutorTranslates ==
    /\ executor.pc = "invoking"
    /\ \E response \in BackendResponses :
         LET out == Translate(executor.by, response)
         IN  executor' = [executor EXCEPT
                            !.pc = "done", !.response = response, !.out = out,
                            !.sent = Enqueued(executor.by, executor.context, out)]
    /\ UNCHANGED translateFrame

\* invoke_agent raises: the except-branch of execute puts the error message,
\* the one of handle_jsonrpc_request raises HTTPException(500)
ExecutorFails ==
    /\ executor.pc = "invoking"
    /\ executor' = [executor EXCEPT
                      !.pc = "done", !.failed = TRUE, !.out = ErrorOf(executor.by),
                      !.sent = Enqueued(executor.by, executor.context, ErrorOf(executor.by)),
                      !.raised = executor.by = "handle_jsonrpc_request"]
    /\ UNCHANGED translateFrame

\* execute with context.streaming set, up to the first chunk of
\* streaming_client.invoke_agent_stream(...)
ExecutorStreams ==
    /\ executor.pc \in {"idle", "done"}
    /\ executor' = [IdleExecutor EXCEPT !.pc = "streaming", !.by = "_execute_streaming",
                                        !.prompt = PromptOf("text"), !.calls = 1]
    /\ UNCHANGED translateFrame

\* the stream gives its chunks and ends, or raises after them: a message is
\* put for each chunk with a text, and the except-branch of execute puts the
\* error message
ExecutorStreamEnds ==
    /\ executor.pc = "streaming"
    /\ \E chunks \in ChunkStreams, ending \in {"eof", "raise"} :
         executor' = [executor EXCEPT
                        !.pc = "done", !.chunks = chunks, !.ending = ending,
                        !.failed = ending = "raise",
                        !.sent = StreamMessages(chunks, 1)
                                   \o (IF ending = "raise"
                                       THEN << Message("_execute_streaming", "text", ErrorMessage) >>
                                       ELSE <<>>)]
    /\ UNCHANGED translateFrame

TranslateNext ==
    \/ ExecutorInvokes
    \/ ExecutorTranslates
    \/ ExecutorFails
    \/ ExecutorStreams
    \/ ExecutorStreamEnds

TranslateSpec == Init /\ [][TranslateNext]_vars

(* ---------------- startup, init_proxy_app and shutdown calls ------------- *)
\* tasks.all[i] is the i-th call of aws_proxy_startup or init_proxy_app on
\* the app: in its own discover_and_refresh_agents ("startup cycle"), then
\* the polling task it created: asleep, inside a cycle, or cancelled.
\* tasks.aws_polling_task and tasks.polling_task are the two attributes of
\* app.state, as the index of the task they hold (0: not set).
Starters == {"aws_proxy_startup", "init_proxy_app"}

taskFrame == << pc, agents, appClient, appHasProxy, proxyClient, appAgents, hasHook, cycles,
                last, pre, committed, gens, lastRead, req, pollingAttr, down, executor >>

\* aws_proxy_startup / init_proxy_app is called and awaits its
\* discover_and_refresh_agents(app, is_startup=True); the calls are made one
\* after the other
StarterCalled ==
    /\ Len(tasks.all) < MaxTasks
    /\ \A i \in DOMAIN tasks.all : tasks.all[i].pc # "startup cycle"
    /\ \E by \in Starters :
         tasks' = [tasks EXCEPT !.all = Append(@, [by |-> by, pc |-> "startup cycle"])]
    /\ UNCHANGED taskFrame

\* the startup cycle is over: asyncio.create_task(agent_polling_task(app)),
\* stored in app.state.aws_polling_task or app.state.polling_task
PollingTaskCreated ==
    /\ \E i \in DOMAIN tasks.all :
         /\ tasks.all[i].pc = "startup cycle"
         /\ tasks' = IF tasks.all[i].by = "aws_proxy_startup"
                     THEN [tasks EXCEPT !.all[i].pc = "sleep", !.aws_polling_task = i]
                     ELSE [tasks EXCEPT !.all[i].pc = "sleep", !.polling_task = i]
    /\ UNCHANGED taskFrame

\* agent_polling_task: asyncio.sleep returns and the cycle begins
PollingTaskWakes ==
    /\ \E i \in DOMAIN tasks.all :
         /\ tasks.all[i].pc = "sleep"
         /\ tasks' = [tasks EXCEPT !.all[i].pc = "cycle"]
    /\ UNCHANGED taskFrame

\* agent_polling_task: discover_and_refresh_agents returns or raises
PollingCycleEnds ==
    /\ \E i \in DOMAIN tasks.all :
         /\ tasks.all[i].pc = "cycle"
         /\ tasks' = [tasks EXCEPT !.all[i].pc = "sleep"]
    /\ UNCHANGED taskFrame

\* aws_proxy_shutdown: cancels the task of app.state.aws_polling_task, if
\* the attribute is set
ShutdownCalled ==
    /\ tasks.aws_polling_task # 0
    /\ tasks.all[tasks.aws_polling_task].pc # "cancelled"
    /\ tasks' = [tasks EXCEPT !.all[tasks.aws_polling_task].pc = "cancelled"]
    /\ UNCHANGED taskFrame

TaskInit ==
    /\ Init
    /\ hasHook = FALSE

TaskNext ==
    \/ StarterCalled
    \/ PollingTaskCreated
    \/ PollingTaskWakes
    \/ PollingCycleEnds
    \/ ShutdownCalled

TaskSpec == TaskInit /\ [][TaskNext]_vars

(* =============================== claims ================================ *)
FailedKinds == {"listfail", "buildfail"}
Steady == Serving /\ ~last.startup

\* C1: every read of the registry observes exactly one discovery generation:
\* the initial empty registry or the complete set installed by one cycle,
\* never a mix and never a partially installed set.
C1_ReadsSeeOneGeneration == lastRead \in gens

\* C2: after every successful discovery cycle the ids in the registry are
\* exactly the ids carried by the records that cycle's list_agents() returned;
\* nothing of an earlier cycle remains.
C2_RegistryIsLastList ==
    (pc # "down" /\ last.kind = "ok") => DOMAIN agents = last.ids

C2_Witness ==
    /\ Serving /\ last.kind = "ok" /\ ~last.startup
    /\ last.ids = {"a2"}
    /\ \E g \in gens : "a1" \in DOMAIN g

\* C3: when list_agents() raises in a polling (non-startup) cycle, the
\* registry after the cycle is the registry before it.
C3_ListFailureKeepsRegistry ==
    (Steady /\ last.kind = "listfail") => agents = pre

C3_Witness ==
    /\ Steady /\ last.kind = "listfail"
    /\ agents # EmptyAgents

\* C4: a polling cycle that fails at any step, also while the records are
\* registered after list_agents() returned, leaves the registry holding the
\* complete set of the last successful cycle.
C4_FailedCycleKeepsCommitted ==
    (Steady /\ last.kind \in FailedKinds) => agents = committed

\* C5: no exception of a discovery cycle ends the polling loop: the step in
\* which a cycle fails takes the loop to its sleep, and the loop leaves the
\* sleep only to start the next cycle or on cancellation.
C5_PollingSurvivesFailure ==
    [][ /\ (pc = "list" /\ pc' \notin {"list", "cancelled"} /\ last'.kind \in FailedKinds)
             => pc' = "sleep"
        /\ (pc = "sleep" /\ pc' # "sleep") => pc' \in {"list", "cancelled"} ]_vars

C5_Witness ==
    /\ pc = "list" /\ cycles = 2
    /\ last.kind = "buildfail" /\ ~last.startup

\* C6: a request that passed the registry lookup and whose target a discovery
\* cycle removed while it awaited the Invoker still completes with exactly
\* one envelope, derived from its own Invoker result.
EnvelopeOf(res) ==
    IF res.kind = "ok" THEN Reply("response", res.text)
    ELSE Reply("error", "Agent execution failed: " \o res.text)

C6_InFlightRequestCompletes ==
    \A r \in Reqs :
        (req[r].pc = "done" /\ ~req[r].stream /\ req[r].calls = 1 /\ req[r].orphan)
            => req[r].out = << EnvelopeOf(req[r].res) >>

\* C7: every non-streaming request whose Invoker call returned or raised has
\* exactly one terminal outcome, a response envelope or an error envelope.
C7_OneTerminalEnvelope ==
    \A r \in Reqs :
        (~req[r].stream /\ req[r].res # NoResult)
            => /\ Len(req[r].out) = 1
               /\ req[r].out[1].kind \in {"response", "error"}

\* C8: whenever the Invoker raises, whatever the exception, the non-streaming
\* handler answers 200 with the error "Agent execution failed: <message>".
C8_InvokerFailureIsErrorEnvelope ==
    \A r \in Reqs :
        (~req[r].stream /\ req[r].res.kind \in {"ValueError", "Exception"})
            => req[r].out = << [status |-> 200, kind |-> "error",
                                text |-> "Agent execution failed: " \o req[r].res.text] >>

\* C9: a request, streaming or not, for an id that is not in the registry is
\* answered 404 and never reaches the Invoker.
C9_UnknownTargetIs404 ==
    \A r \in Reqs :
        (req[r].pc # "idle" /\ ~req[r].known)
            => /\ req[r].pc = "done"
               /\ Len(req[r].out) = 1
               /\ req[r].out[1].status = 404
               /\ req[r].calls = 0

C9_Witness ==
    \E r \in Reqs, q \in Reqs :
        /\ req[r].pc = "done" /\ req[r].target = "zz" /\ req[r].out[1].status = 404
        /\ req[q].pc = "done" /\ req[q].target = "a1" /\ ~req[q].known

\* C10: a request to a registered target without the message.parts text is
\* answered with a client error and no Invoker call, streaming or not; and a
\* client error is answered only to a malformed request.
C10_ClientErrorIffMalformed ==
    \A r \in Reqs :
        /\ (req[r].known /\ req[r].body = "noparts")
              => /\ req[r].pc = "done"
                 /\ Len(req[r].out) = 1
                 /\ req[r].out[1].status = 400
                 /\ req[r].calls = 0
        /\ (\E i \in DOMAIN req[r].out : req[r].out[i].status = 400)
              => req[r].body \in {"badjson", "noparts"}

\* C11: a request to a registered target that finds the AgentCore client not
\* initialized is answered as service unavailable: the non-streaming handler
\* answers HTTP 503, the streaming handler sends the one error item
\* "AgentCore client not initialized"; neither is the 404 of an unknown
\* target nor the "Agent execution failed" error of a failed Invoker call.
ClientMissing(q) ==
    /\ q.pc = "done" /\ q.known /\ q.body = "ok" /\ q.calls = 0

C11_ClientMissingIsUnavailable ==
    \A r \in Reqs :
        ClientMissing(req[r])
            => /\ Len(req[r].out) = 1
               /\ IF req[r].stream
                  THEN req[r].out[1] = Reply("error", "AgentCore client not initialized")
                  ELSE req[r].out[1].status = 503

\* C12: every stream that was opened sends items of partial output followed
\* by exactly one terminal item, the "[DONE]" marker or an error item, and
\* nothing after it.  On the direct streaming endpoint the items are the
\* non-empty upstream lines that precede the first "[DONE]" line, then one
\* "[DONE]": no upstream line after a "[DONE]" line is forwarded.
Opened(q) ==
    /\ q.stream
    /\ q.pc \in {"lines", "tail", "stalled", "done"}
    /\ \A i \in DOMAIN q.out : q.out[i].kind # "http"

AllChunks(items) == \A i \in DOMAIN items : items[i].kind = "chunk"

EndsWith(items, kinds) ==
    /\ Len(items) >= 1
    /\ items[Len(items)].kind \in kinds
    /\ AllChunks(SubSeq(items, 1, Len(items) - 1))

IsText(line) == line # BlankLine
BeforeDone(lines) ==
    LET dones == { i \in DOMAIN lines : lines[i].text = "[DONE]" }
        first == IF dones = {} THEN Len(lines) + 1
                 ELSE CHOOSE i \in dones : \A j \in dones : i <= j
    IN  SubSeq(lines, 1, first - 1)
Forwarded(lines) ==
    LET kept == SelectSeq(BeforeDone(lines), IsText)
    IN  [i \in 1..Len(kept) |-> Reply("chunk", kept[i].text)]

C12_StreamEndsWithOneMarker ==
    \A r \in Reqs :
        LET q == req[r]
        IN  Opened(q) =>
              /\ IF q.pc = "done" THEN EndsWith(q.out, {"done", "error"})
                 ELSE AllChunks(q.out)
              /\ (q.pc = "done" /\ q.at >= 1 /\ q.ending # "raise")
                    => q.out = Append(Forwarded(q.up), DoneMarker)

C12_Witness ==
    \E r \in Reqs :
        /\ req[r].pc = "done" /\ req[r].route = "invoke-stream"
        /\ req[r].up = << [data |-> TRUE, text |-> "[DONE]"], [data |-> FALSE, text |-> "t1"] >>
        /\ req[r].out = << DoneMarker >>

\* C13: a stream in which the Invoker call or a read of the upstream body
\* failed, before the first item or after some items were sent, has ended,
\* and its last item is its only error item.
StreamFailed(q) == q.res.kind \notin {"none", "ok"} \/ q.ending = "raise"

C13_FailureEndsStreamWithOneError ==
    \A r \in Reqs :
        (Opened(req[r]) /\ StreamFailed(req[r]))
            => /\ req[r].pc = "done"
               /\ EndsWith(req[r].out, {"error"})

C13_Witness ==
    \E r \in Reqs, q \in Reqs :
        /\ req[r].pc = "done" /\ req[r].ending = "raise" /\ Len(req[r].out) = 2
        /\ req[q].pc = "done" /\ req[q].route = "a2a" /\ req[q].stream
        /\ req[q].res.kind = "Exception" /\ Len(req[q].out) = 1

\* C14: no step of a request handler (A2A message, direct invocation,
\* A2AProxy.invoke_agent, a listing), whether its Invoker call returned or
\* raised, changes the registry; the registry changes only in the step of a
\* discovery cycle that follows list_agents() and in the shutdown.
C14_HandlersLeaveRegistry ==
    [][ /\ (req' # req \/ lastRead' # lastRead) => agents' = agents
        /\ agents' # agents
              => \/ pc \in {"st_list", "list"} /\ pc' # pc
                 \/ ~down /\ down' ]_vars

C14_Witness ==
    \E r \in Reqs, q \in Reqs :
        /\ req[r].pc = "done" /\ req[r].route = "api" /\ req[r].res.kind = "Exception"
        /\ req[q].pc = "done" /\ req[q].route = "a2a" /\ req[q].res.kind = "ValueError"
        /\ agents # EmptyAgents /\ req[r].target \in DOMAIN agents

StartupFailed == last.startup /\ last.kind \in {"noclient", "listfail"}

C16_FailedStartupStillServes ==
    StartupFailed
        => /\ pc \in {"st_hook", "sleep", "list", "cancelled", "down"}
           /\ agents = EmptyAgents

C16_Witness ==
    /\ pc = "sleep" /\ hasHook /\ appClient = "ok"
    /\ last.startup /\ last.kind = "listfail"

\* C17: the startup cycle has run to its end before any request is served
\* and before the polling loop runs: the loop goes from the startup cycle
\* (Registry call, then the hook) to the sleep, from the sleep to a polling
\* cycle and back, until it is stopped; a startup cycle that an exception
\* aborts is followed by nothing.
InStartup == pc \in {"init", "st_list", "st_hook"}

LoopOrder ==
    { << "init", "st_list" >>, << "init", "sleep" >>,
      << "st_list", "st_hook" >>, << "st_list", "sleep" >>, << "st_list", "crashed" >>,
      << "st_hook", "sleep" >>,
      << "sleep", "list" >>, << "sleep", "cancelled" >>,
      << "list", "hook" >>, << "list", "sleep" >>, << "list", "cancelled" >>,
      << "hook", "sleep" >>, << "hook", "cancelled" >>,
      << "cancelled", "down" >> }

C17_StartupCycleFirst ==
    /\ [](InStartup => /\ \A r \in Reqs : req[r].pc = "idle"
                       /\ cycles = 0)
    /\ [][ /\ pc' # pc => << pc, pc' >> \in LoopOrder
           /\ cycles' # cycles => pc = "sleep" /\ pc' = "list" ]_vars

C17_Witness ==
    /\ pc = "hook" /\ cycles = 2
    /\ \E r \in Reqs : req[r].pc = "done" /\ req[r].calls = 1
    /\ last.kind = "ok"

\* C18: a Registry that was unavailable at startup or in a cycle can be used
\* again by a later cycle: at the Registry call of every polling cycle the
\* outcome in which list_agents() returns the records and they are installed
\* is possible.
C18_LaterCycleCanSucceed == pc = "list" => ENABLED ListReturns

\* C19: when the polling task is cancelled, at the sleep, at the Registry
\* call or at the hook, the registry is a complete set: the one installed by
\* the last successful cycle, which is the set the interrupted cycle found
\* or the set it installed.
C19_StopLeavesCompleteRegistry == pc = "cancelled" => agents = committed

\* C20: once aws_proxy_shutdown has run to its end, the polling loop has
\* ended and the registry is empty, whether aws_proxy_startup or
\* init_proxy_app started the loop; as no cycle runs any more, it stays so.
C20_ShutdownIsFinal ==
    down => /\ pc = "down"
            /\ agents = EmptyAgents

\* C21: every entry of the registry is kept under its own non-empty id; a
\* record without an id is left out, the cycle that met it does not fail
\* for it, and the other records of its list are registered.
WithoutRaisingRecord(list) == \A i \in DOMAIN list : list[i].id # BadId

C21_EntriesKeyedByTheirId ==
    /\ \A k \in DOMAIN agents : k \in Ids /\ agents[k].id = k
    /\ (pc # "down" /\ last.kind = "ok") => DOMAIN agents = CarriedIds(appAgents)
    /\ \A list \in AgentLists :
          WithoutRaisingRecord(list) => ~InitializeAgents(EmptyAgents, list).raised

C21_Witness ==
    /\ Serving /\ last.kind = "ok"
    /\ appAgents = << [id |-> NoId, status |-> "READY"], [id |-> "a1", status |-> "READY"] >>
    /\ DOMAIN agents = {"a1"}

\* C22: for a backend response whose result.content holds one or more items
\* with a text, the extracted text is the texts of the items joined in order,
\* nothing added between them and no character removed or changed.
Translated == executor.pc = "done" /\ executor.by \in Translators /\ ~executor.failed
AllHaveText(content) == \A i \in DOMAIN content : content[i].hasText

C22_TextIsConcatenation ==
    (/\ Translated
     /\ executor.response.shape = "content"
     /\ Len(executor.response.content) >= 1
     /\ AllHaveText(executor.response.content))
        => executor.out = TextOf(JoinTexts(executor.response.content, 1))

\* C23: for a backend response without the nested result.content shape an
\* executor does not fail: the text is str() of the whole response.
C23_OtherShapeIsRendered ==
    (/\ Translated
     /\ executor.by \in {"execute", "_execute_single_response"}
     /\ executor.response.shape # "content")
        => executor.out = Rendering(executor.response)

\* C24: for a backend response whose result.content is an empty list the
\* extracted text is not the empty text: it is str() of the whole response.
C24_EmptyContentIsRendered ==
    (/\ Translated
     /\ executor.response.shape = "content"
     /\ executor.response.content = <<>>)
        => executor.out = Rendering(executor.response)

\* C25: every response and error object an A2A request is answered with, the
\* single one of message/send and each item of a message/stream reply,
\* carries the id of the request, also when the request has none.
C25_EnvelopeEchoesRequestId ==
    \A r \in Reqs :
        (req[r].pc = "done" /\ req[r].route = "a2a") =>
            \A i \in DOMAIN req[r].out :
                req[r].out[i].kind \in Envelopes
                    => EnvelopeId(req[r], req[r].out[i]) = req[r].rid

\* C26: the card endpoint of A2AProxy answers with the document of the agent
\* exactly for the ids the registry holds and with 404 for any other id, and
\* the list endpoint answers with one document for each entry of the
\* registry, entries whose record has agentRuntimeId alone included.
CardDone(r, routes) == req[r].pc = "done" /\ req[r].route \in routes
DocumentsFor(reply, ids) ==
    /\ reply.kind \in {"card", "cards"}
    /\ \A d \in reply.docs : d.id \in ids
    /\ \A id \in ids : Cardinality({ d \in reply.docs : d.id = id }) = 1

C26_DocumentsMatchRegistry ==
    \A r \in Reqs :
        /\ CardDone(r, {"card"}) =>
              IF req[r].target \in DOMAIN lastRead
              THEN DocumentsFor(req[r].out[1], {req[r].target})
              ELSE req[r].out[1].status = 404
        /\ CardDone(r, {"cards"}) => DocumentsFor(req[r].out[1], DOMAIN lastRead)

\* C27: a card document advertises streaming exactly when the streaming
\* option of the proxy is enabled.
C27_StreamingAsConfigured ==
    \A r \in Reqs :
        (CardDone(r, {"card", "legacy_card"}) /\ req[r].known) =>
            /\ req[r].out[1].kind = "card"
            /\ \A d \in req[r].out[1].docs : d.streaming = req[r].streamingEnabled

\* C28: GET /health answers with success in every state the server is in
\* while it serves: with the registry empty, with app.state.client None after
\* a failed startup, after a failed cycle and while a cycle is in progress.
HealthDone(r) == req[r].pc = "done" /\ req[r].route = "health"

C28_HealthAlwaysSucceeds ==
    \A r \in ProbeCallers :
        /\ HealthDone(r) => req[r].out = << Reply("healthy", "") >>
        /\ (Serving /\ LoopFree /\ req[r].pc = "idle") => ENABLED Health(r)

C28_Witness ==
    \E r \in ProbeCallers :
        /\ HealthDone(r)
        /\ appClient = "none"
        /\ agents = EmptyAgents
        /\ pc = "list"
        /\ last.kind \in FailedKinds

\* C29: GET /ready answers ready exactly when the list_agents() call it makes
\* returns, and 503 when app.state.client is missing or None or the call
\* raises; the probe leaves the registry and the polling loop as they are.
ReadyDone(r) == req[r].pc = "done" /\ req[r].route = "ready"
ReadyStep(r) ==
    \/ req[r].route # "ready" /\ req'[r].route = "ready"
    \/ req[r].pc = "ready_list" /\ req'[r].pc = "done"

C29_ReadyIffListSucceeds ==
    /\ [](\A r \in ProbeCallers :
            ReadyDone(r) =>
                /\ req[r].out[1].kind = "ready"
                      <=> (req[r].calls = 1 /\ req[r].res.kind = "ok")
                /\ req[r].out[1].kind # "ready" => req[r].out[1].status = 503
                /\ Len(req[r].out) = 1)
    /\ [][\A r \in ProbeCallers :
            ReadyStep(r) => /\ UNCHANGED << agents, appAgents, pc, cycles, appClient >>
                            /\ (ENABLED ListReturns)' = ENABLED ListReturns
                            /\ (ENABLED PollWake)' = ENABLED PollWake]_vars

C29_Witness ==
    \E r \in ProbeCallers :
        /\ ReadyDone(r)
        /\ req[r].calls = 1
        /\ req[r].res.kind = "Exception"
        /\ req[r].out[1].status = 503
        /\ agents # EmptyAgents
        /\ pc = "sleep"

\* C30 as stated: in a successful cycle the summary line is written before
\* the on-refresh handler is called, and the handler is called only after the
\* registry holds the new set.
Position(steps, step) ==
    IF \E i \in DOMAIN steps : steps[i] = step
    THEN CHOOSE i \in DOMAIN steps : steps[i] = step /\ \A j \in 1..(i - 1) : steps[j] # step
    ELSE 0
Called(step) == Position(last.steps, step) > 0
Count(steps, step) == Cardinality({ i \in DOMAIN steps : steps[i] = step })
InHook == pc \in {"st_hook", "hook"}

C30_SummaryBeforeHook ==
    (last.kind = "ok" /\ Called("hook")) =>
        /\ Called("summary")
        /\ Position(last.steps, "summary") < Position(last.steps, "hook")

\* C30, amended: in a successful cycle list_agents() is called first, then
\* the registry is replaced, then the on-refresh handler, if one is set, is
\* called, and the one summary line is written last, after the handler has
\* returned or failed; the handler is called only once the registry holds the
\* new set.
C30_HookBeforeSummary ==
    /\ last.kind = "ok" =>
          /\ last.steps \in { << "list", "replace", "summary" >>,
                              << "list", "replace", "hook" >>,
                              << "list", "replace", "hook", "summary" >> }
          /\ Called("hook") <=> hasHook
          /\ Count(last.steps, "summary") <= 1
          /\ pc = "sleep" => last.steps[Len(last.steps)] = "summary"
    /\ (InHook /\ last.kind = "ok") =>
          /\ last.steps = << "list", "replace", "hook" >>
          /\ DOMAIN agents = last.ids
          /\ agents = committed

C30_Witness ==
    /\ last.kind = "ok"
    /\ last.steps = << "list", "replace", "hook", "summary" >>
    /\ last.ids = {"a1", "a2"}
    /\ pc = "sleep"

\* C31: an exception of the on-refresh handler is caught in the cycle: the
\* cycle runs on to its return with its summary line written, the
\* registry it installed stays as it is, and the loop goes on to its sleep.
HookRaised == last.hook = "raised"

C31_HookFailureIsCaught ==
    /\ [](HookRaised =>
            /\ last.kind \in {"ok", "listfail"}
            /\ pc \notin {"crashed", "dead"}
            /\ Count(last.steps, "summary") = 1
            /\ (pc # "down" => agents = committed /\ DOMAIN agents = last.ids)
            /\ (pc = "sleep" /\ cycles < MaxCycles) => ENABLED PollWake)
    /\ [][(~HookRaised /\ HookRaised')
            => /\ UNCHANGED << agents, appAgents, committed, proxyClient >>
               /\ pc' = "sleep"]_vars

C31_Witness ==
    /\ HookRaised
    /\ last.startup
    /\ pc = "list"
    /\ agents # EmptyAgents

\* C32: a request for an id of the registry is routed on to the call of the
\* Invoker whatever the status of its record is, and the registry holds the
\* status of each record as list_agents() gave it.
Routed(r, id) == ArriveAt(r, id) /\ req'[r].pc = "json"
ListedRecords == { appAgents[i] : i \in DOMAIN appAgents }

C32_StatusNeverBlocksRouting ==
    /\ \A r \in Reqs, id \in Targets :
          (Serving /\ LoopFree /\ req[r].pc = "idle" /\ id \in DOMAIN agents)
              => ENABLED Routed(r, id)
    /\ (last.kind = "ok" /\ pc # "down") =>
          \A id \in DOMAIN agents : agents[id] \in ListedRecords
    /\ \A r \in Reqs :
          (req[r].pc = "done" /\ req[r].route = "a2a" /\ req[r].known
             /\ req[r].body = "ok" /\ proxyClient = "ok") => req[r].calls = 1

C32_Witness ==
    \E r \in Reqs :
        /\ req[r].pc = "done" /\ req[r].route = "a2a" /\ req[r].target = "a1"
        /\ req[r].calls = 1 /\ req[r].res.kind = "ok"
        /\ "a1" \in DOMAIN agents
        /\ agents["a1"].status = OtherStatus
        /\ lastRead = agents

\* C33: in streaming mode one message is sent for each chunk received, in
\* the order of arrival, and its text is got from the chunk by the rule of
\* the single response: the texts of all items of result.content joined in
\* order, and str() of the chunk when it has no such content.
Streamed == executor.pc = "done" /\ executor.by = "_execute_streaming"
ChunkTextByRule(chunk) ==
    IF chunk.shape = "content" /\ Len(chunk.content) >= 1
    THEN TextOf(JoinTexts(chunk.content, 1))
    ELSE Rendering(chunk)

C33_OneMessagePerChunk ==
    (Streamed /\ executor.ending = "eof") =>
        /\ Len(executor.sent) = Len(executor.chunks)
        /\ \A i \in DOMAIN executor.chunks :
              i \in DOMAIN executor.sent
                  => executor.sent[i].body = ChunkTextByRule(executor.chunks[i])

\* C34: a call of execute in single-response mode puts exactly one message
\* on the event queue and does not raise: the response message, with the
\* task id and the context id of the request, when the backend call returns,
\* and one error message with the text of the failure when it raises.
Executors == {"execute", "_execute_single_response"}
Executed == executor.pc = "done" /\ executor.by \in Executors

C34_OneMessagePerExecute ==
    Executed =>
        /\ Len(executor.sent) = 1
        /\ ~executor.raised
        /\ executor.sent[1].body = executor.out
        /\ executor.failed <=> executor.out = ErrorOf(executor.by)
        /\ ~executor.failed =>
              /\ executor.sent[1].taskId = RequestTask
              /\ executor.context # "no message"
                    => executor.sent[1].contextId = RequestContext

\* C35: with a request context that has no message, or a message with an
\* empty parts list, execute of a2a_proxy.py still calls invoke_agent once,
\* with the empty string as prompt, and puts exactly one message.
WithoutText == executor.context \in {"no message", "no parts"}

C35_EmptyPromptStillInvokes ==
    (executor.by = "execute" /\ WithoutText) =>
        /\ executor.pc \in {"invoking", "done"}
              => executor.calls = 1 /\ executor.prompt = ""
        /\ executor.pc = "done" => Len(executor.sent) = 1 /\ ~executor.raised

C35_Witness ==
    /\ executor.pc = "done" /\ executor.by = "execute"
    /\ executor.context = "no message"
    /\ ~executor.failed
    /\ executor.response.shape = "content"
    /\ Len(executor.sent) = 1

\* C36: invoke_agentcore_agent classifies a request in a fixed order: an
\* unknown agent id is answered 404, else a proxy without client 503, else a
\* failure of the client 500, else the raw response of the backend is
\* returned as it is; the client is called only when the first two checks
\* pass.
DirectBegins(r) == req[r].pc = "idle" /\ req'[r].pc # "idle" /\ req'[r].route = "invoke"

C36_DirectInvokeOrder ==
    /\ [][\A r \in Reqs : DirectBegins(r) =>
            LET q == req'[r]
            IN  /\ q.target \notin DOMAIN agents
                     => /\ q.pc = "done" /\ q.calls = 0
                        /\ q.out = << HttpError(404, "Agent " \o q.target \o " not found") >>
                /\ (q.target \in DOMAIN agents /\ proxyClient = "none")
                     => /\ q.pc = "done" /\ q.calls = 0
                        /\ q.out = << HttpError(503, "AgentCore client not initialized") >>
                /\ (q.target \in DOMAIN agents /\ proxyClient # "none")
                     => q.pc = "invoke" /\ q.calls = 1]_vars
    /\ [](\A r \in Reqs : (req[r].route = "invoke" /\ req[r].pc = "done" /\ req[r].calls = 1) =>
            /\ req[r].known
            /\ req[r].res.kind = "ok" => req[r].out = << Reply("raw", req[r].res.text) >>
            /\ req[r].res.kind # "ok" => req[r].out = << HttpError(500, req[r].res.text) >>)

C36_Witness ==
    /\ proxyClient = "none"
    /\ \E r \in Reqs :
         /\ req[r].route = "invoke" /\ req[r].pc = "done" /\ req[r].known
         /\ req[r].calls = 0
         /\ req[r].out = << HttpError(503, "AgentCore client not initialized") >>

\* C37: when several error conditions hold for one single-shot request,
\* the outcome reported is that of the first in the order unknown target,
\* unparseable body, malformed envelope, uninitialized client, failure of
\* the client; a later condition is never reported while an earlier holds.
Conditions == << "unknown target", "unparseable body", "malformed envelope",
                 "uninitialized Invoker", "Invoker failure" >>

\* the condition a reply reports, by its status and form
Reported(reply) ==
    CASE reply.kind = "http" /\ reply.status = 404 -> Conditions[1]
      [] reply.kind = "http" /\ reply.status = 400 /\ reply.text = "Invalid JSON" -> Conditions[2]
      [] reply.kind = "http" /\ reply.status = 400 /\ reply.text # "Invalid JSON" -> Conditions[3]
      [] reply.kind = "http" /\ reply.status = 503 -> Conditions[4]
      [] reply.kind = "error" -> Conditions[5]
      [] OTHER -> "none"

\* the first condition that held for the finished request q
FirstHolding(q) ==
    IF ~q.known THEN Conditions[1]
    ELSE IF q.body = "badjson" THEN Conditions[2]
    ELSE IF q.body = "noparts" THEN Conditions[3]
    ELSE IF q.calls = 0 THEN Conditions[4]
    ELSE IF q.res.kind # "ok" THEN Conditions[5]
    ELSE "none"

C37_ErrorPrecedence ==
    \A r \in Reqs :
        (req[r].pc = "done" /\ req[r].route = "a2a" /\ ~req[r].stream)
            => /\ Len(req[r].out) = 1
               /\ Reported(req[r].out[1]) = FirstHolding(req[r])

\* GET /status: the body built from app.state.agents, with
\* agent.get("agentRuntimeId", "") for each record
StatusId(agent) == IF agent.id = NoId THEN "" ELSE agent.id
StatusBody(list) ==
    [agents_discovered |-> Len(list),
     agents |-> [i \in DOMAIN list |-> StatusId(list[i])]]

\* C38: after every discovery cycle the list behind the status view
\* describes the same targets as the registry: as many entries, and the same
\* ids, also when the list of a cycle has records without id or a cycle
\* fails.
CycleOver == last.kind # "none" /\ pc \in {"sleep", "st_hook", "hook"}
StatusIds == { StatusBody(appAgents).agents[i] : i \in DOMAIN appAgents }

C38_StatusMatchesRegistry ==
    CycleOver =>
        /\ StatusBody(appAgents).agents_discovered = Cardinality(DOMAIN agents)
        /\ StatusIds = DOMAIN agents

\* C39: there is at most one polling task, and at most one discovery cycle
\* in progress, at any time and for every sequence of aws_proxy_startup,
\* init_proxy_app and aws_proxy_shutdown calls.
PollingTasks == { i \in DOMAIN tasks.all : tasks.all[i].pc \in {"sleep", "cycle"} }
CyclesInProgress == { i \in DOMAIN tasks.all : tasks.all[i].pc \in {"startup cycle", "cycle"} }

C39_OnePollingTask ==
    /\ Cardinality(PollingTasks) <= 1
    /\ Cardinality(CyclesInProgress) <= 1

\* C40: whenever the registry holds a target installed by a discovery
\* cycle, the client of the proxy is initialized, so that no request to a
\* discovered target is answered with "client not initialized".
NotInitializedTexts ==
    { "AgentCore client not initialized",
      "Agent execution failed: 503: AgentCore client not initialized" }

C40_DiscoveredTargetsHaveClient ==
    /\ (last.kind # "none" /\ agents # EmptyAgents) => proxyClient = "ok"
    /\ \A r \in Reqs :
          (req[r].pc = "done" /\ req[r].known)
              => \A i \in DOMAIN req[r].out : req[r].out[i].text \notin NotInitializedTexts

====
